---- MODULE Spec2Model ----
(***************************************************************************)
(* Model of advchain/augmentor/adv_morph.py: the diffeomorphic deformation *)
(* engine (base grid, Gaussian smoothing, field composition, vector-field  *)
(* exponentiation, DemonsCompose) and the AdvMorph lifecycle               *)
(* (init_parameters / train / forward / backward / optimize_parameters).   *)
(*                                                                         *)
(* Numbers.  A real value v is held as the integer v * Scale (fixed point, *)
(* rounded to nearest).  Tensors are sequences: a 2-channel field is       *)
(* f[c][y][x] with c in 1..2, an image is d[c][y][x] with c in 1..C.  One  *)
(* sample of the batch is modelled: every tensor operation of the file     *)
(* (depthwise convolution, grid_sample, interpolate, clamp) acts on each   *)
(* sample of the batch independently.                                      *)
(*                                                                         *)
(* Two specifications.  Spec follows one AdvMorph instance through the     *)
(* calls of its methods; SpecFn calls the functions of the deformation     *)
(* engine directly, one call at a time, on sampled arguments.              *)
(***************************************************************************)
EXTENDS Integers, Sequences, FiniteSets, TLC

(* Fixed-point unit: 3 * 2^16.  A multiple of 2^num_steps (velocities are   *)
(* divided by it) and of 3 (linspace(-1,1,n) is exact for n in 2..4).       *)
Limb == 3 * 256
Scale == Limb * 256

\* ---------------------------------------------------------------- bounds
\* Image height and width of data_size, height and width of vector_size.
ImgH == 3
ImgW == 3
VecH == 2
VecW == 2
\* Successful optimize_parameters calls, and loss backpropagations
\* accumulated into one gradient, that the lifecycle model follows.
MaxOpt == 2
MaxAccum == 1

\* ------------------------------------------------- constants of __init__
sigma == 1
gaussian_ks == 3
smooth_iter == 1
num_steps == 8

\* ------------------------------------------------------- tensor helpers
\* Sequence <<Op(1), ..., Op(n)>>, evaluated once.
Mk(n, Op(_)) == SubSeq([i \in 1..n |-> Op(i)], 1, n)

\* Body(v) with v bound to the value of e, which is evaluated once.
Bind(e, Body(_)) == CHOOSE r \in { Body(v) : v \in {e} } : TRUE

\* Tensor t[c][y][x] of shape C x H x W.
Tensor(C, H, W, Op(_, _, _)) ==
    Mk(C, LAMBDA c : Mk(H, LAMBDA y : Mk(W, LAMBDA x : Op(c, y, x))))

Chan(t) == Len(t)
Height(t) == Len(t[1])
Width(t) == Len(t[1][1])

\* a / b rounded to nearest (halves up), b > 0.
RoundDiv(a, b) == (a + (b \div 2)) \div b

\* a * b / c rounded to nearest, computed without leaving 32 bits:
\* c is a multiple of Limb, 0 <= b, b * Limb < 2^31.  With a = q * c + r and
\* r = r1 * L + r0 (L = c / Limb): a * b / c = q * b + (r1 * b * L + r0 * b) / c.
MulDivTail(t, s0, c, L) == (t \div Limb) + RoundDiv((t % Limb) * L + s0, c)
MulDivRem(r, b, c, L) == MulDivTail((r \div L) * b, (r % L) * b, c, L)
MulDiv(a, b, c) == (a \div c) * b + MulDivRem(a % c, b, c, c \div Limb)

Min(a, b) == IF a < b THEN a ELSE b
Max(a, b) == IF a > b THEN a ELSE b

RECURSIVE Pow2(_)
Pow2(n) == IF n = 0 THEN 1 ELSE 2 * Pow2(n - 1)

\* Element-wise tensor arithmetic (torch +, -, unary -, scalar *, scalar /).
TAdd(a, b) == Tensor(Chan(a), Height(a), Width(a), LAMBDA c, y, x : a[c][y][x] + b[c][y][x])
TSub(a, b) == Tensor(Chan(a), Height(a), Width(a), LAMBDA c, y, x : a[c][y][x] - b[c][y][x])
TNeg(a) == Tensor(Chan(a), Height(a), Width(a), LAMBDA c, y, x : 0 - a[c][y][x])
\* s * a for a fixed-point scalar s.
TMul(s, a) == Tensor(Chan(a), Height(a), Width(a), LAMBDA c, y, x : MulDiv(a[c][y][x], s, Scale))
\* a / d for an integer d.
TDiv(a, d) == Tensor(Chan(a), Height(a), Width(a), LAMBDA c, y, x : RoundDiv(a[c][y][x], d))

\* No truncation: the value is passed on as it is.
ClampUnit_unclamped(v) == v

\* torch.clamp(t, -1, 1), on one element and on a tensor.
ClampUnit(v) == Max(0 - Scale, Min(Scale, v))
clamp(t) == Tensor(Chan(t), Height(t), Width(t), LAMBDA c, y, x : ClampUnit(t[c][y][x]))

\* ------------------------------------------------------------ GridField
\* torch.linspace(-1, 1, n)[i], i in 1..n.
linspace(i, n) == IF n = 1 THEN 0 - Scale ELSE RoundDiv(2 * Scale * (i - 1), n - 1) - Scale

\* get_base_grid: channel 1 is x_ind (varies along the width), channel 2 is
\* y_ind (varies along the height).
get_base_grid(image_height, image_width) ==
    Tensor(2, image_height, image_width,
           LAMBDA c, y, x : IF c = 1 THEN linspace(x, image_width)
                                     ELSE linspace(y, image_height))

\* ----------------------------------------------------- F.grid_sample
\* Source indices are fractions num / SrcDen.
SrcDen == 2 * Scale

\* The source index under align_corners = False, ((g + 1) * n - 1) / 2.
SrcNum_unaligned(g, n, padding_mode) ==
    LET raw == (g + Scale) * n - Scale
    IN IF padding_mode = "border" THEN Max(0, Min((n - 1) * SrcDen, raw)) ELSE raw

\* Source index of grid coordinate g along an axis of n cells with
\* align_corners=True, as the numerator over SrcDen: ((g + 1) / 2) * (n - 1),
\* clipped to [0, n - 1] when padding_mode = 'border'.
SrcNum(g, n, padding_mode) ==
    LET raw == (g + Scale) * (n - 1)
    IN IF padding_mode = "border" THEN Max(0, Min((n - 1) * SrcDen, raw)) ELSE raw

\* A cell of plane p (p[y][x], 0-based iy, ix); 0 outside the plane.
Cell(p, iy, ix) ==
    IF iy >= 0 /\ iy < Len(p) /\ ix >= 0 /\ ix < Len(p[1]) THEN p[iy + 1][ix + 1] ELSE 0

\* Bilinear sample of plane p at grid coordinates (gx, gy).
SampleBilinear(p, gx, gy, padding_mode) ==
    LET nx == SrcNum(gx, Len(p[1]), padding_mode)
        ny == SrcNum(gy, Len(p), padding_mode)
        x0 == nx \div SrcDen
        y0 == ny \div SrcDen
        fx == nx - x0 * SrcDen
        fy == ny - y0 * SrcDen
        top == Cell(p, y0, x0) + MulDiv(Cell(p, y0, x0 + 1) - Cell(p, y0, x0), fx, SrcDen)
        bot == Cell(p, y0 + 1, x0) + MulDiv(Cell(p, y0 + 1, x0 + 1) - Cell(p, y0 + 1, x0), fx, SrcDen)
    IN top + MulDiv(bot - top, fy, SrcDen)

\* num / den rounded to the nearest integer, halves to even (nearbyint).
RoundHalfEven(num, den) ==
    LET q == num \div den
        r == num - q * den
    IN IF 2 * r < den THEN q
       ELSE IF 2 * r > den THEN q + 1
       ELSE IF q % 2 = 0 THEN q ELSE q + 1

\* Nearest-neighbour sample of plane p at grid coordinates (gx, gy).
SampleNearest(p, gx, gy, padding_mode) ==
    Cell(p, RoundHalfEven(SrcNum(gy, Len(p), padding_mode), SrcDen),
            RoundHalfEven(SrcNum(gx, Len(p[1]), padding_mode), SrcDen))

\* F.grid_sample(input, grid.permute(0,2,3,1), mode, padding_mode,
\* align_corners=True): grid channel 1 is the x coordinate, channel 2 the y.
grid_sample(input, grid, mode, padding_mode) ==
    Tensor(Chan(input), Height(grid), Width(grid),
           LAMBDA c, y, x :
               IF mode = "bilinear"
               THEN SampleBilinear(input[c], grid[1][y][x], grid[2][y][x], padding_mode)
               ELSE SampleNearest(input[c], grid[1][y][x], grid[2][y][x], padding_mode))

\* ------------------------------------------------------- FieldComposer
applyComposition2D(flow1, flow2) == grid_sample(flow1, flow2, "bilinear", "border")

\* ------------------------------------------------------- F.interpolate
\* F.interpolate(t, size=(out_h, out_w), mode='bilinear', align_corners=False).
\* Source index of output cell dst (0-based) as the fraction num / (2 * out):
\* (dst + 0.5) * in / out - 0.5, negative values set to 0.
InterpNum(dst, in, out) == Max(0, (2 * dst + 1) * in - out)

InterpCell(p, y, x, out_h, out_w) ==
    LET in_h == Len(p)
        in_w == Len(p[1])
        ny == InterpNum(y - 1, in_h, out_h)
        nx == InterpNum(x - 1, in_w, out_w)
        y0 == ny \div (2 * out_h)
        x0 == nx \div (2 * out_w)
        y1 == IF y0 < in_h - 1 THEN y0 + 1 ELSE y0
        x1 == IF x0 < in_w - 1 THEN x0 + 1 ELSE x0
        ly == ny - y0 * (2 * out_h)
        lx == nx - x0 * (2 * out_w)
        top == RoundDiv(p[y0 + 1][x0 + 1] * (2 * out_w - lx) + p[y0 + 1][x1 + 1] * lx, 2 * out_w)
        bot == RoundDiv(p[y1 + 1][x0 + 1] * (2 * out_w - lx) + p[y1 + 1][x1 + 1] * lx, 2 * out_w)
    IN RoundDiv(top * (2 * out_h - ly) + bot * ly, 2 * out_h)

interpolate(t, out_h, out_w) ==
    Tensor(Chan(t), out_h, out_w, LAMBDA c, y, x : InterpCell(t[c], y, x, out_h, out_w))

\* ----------------------------------------------------- GaussianSmoother
\* get_gaussian_kernel: the kernel size is enlarged to 2 * int(3.5 * sigma) + 1
\* when smaller.  The 2-D kernel exp(-(dx^2 + dy^2) / (2 sigma^2)), normalised
\* to sum 1, is the outer product of the normalised 1-D kernel with itself.
KernelSize(kernel_size, sig) ==
    IF kernel_size < 2 * ((7 * sig) \div 2) + 1 THEN 2 * ((7 * sig) \div 2) + 1
    ELSE kernel_size

\* Normalised 1-D weight at distance d from the centre, in thousandths, for
\* sigma = 1 (the only sigma of the file): 0.3990, 0.2420, 0.0540, 0.0044.
GaussWeightDen == 10 * 10 * 10
GaussWeight(d) ==
    CASE d = 0 -> 400
      [] d = 1 -> 242
      [] d = 2 -> 54
      [] d = 3 -> 4
      [] OTHER -> 0

Abs(v) == IF v < 0 THEN 0 - v ELSE v

get_gaussian_kernel(kernel_size, sig) ==
    Bind(KernelSize(kernel_size, sig),
         LAMBDA ks : [size |-> ks, pad |-> ks \div 2,
                      weight |-> Mk(ks, LAMBDA i : GaussWeight(Abs(i - 1 - (ks - 1) \div 2)))])

RECURSIVE SumSeq(_)
SumSeq(s) == IF s = <<>> THEN 0 ELSE Head(s) + SumSeq(Tail(s))

\* sum_k weight[k] * vals[k] / GaussWeightDen rounded to nearest; each value
\* is split into its multiple of GaussWeightDen and the rest, to stay in 32 bits.
WeightedSum(weight, vals) ==
    SumSeq(Mk(Len(weight), LAMBDA k : weight[k] * (vals[k] \div GaussWeightDen)))
    + RoundDiv(SumSeq(Mk(Len(weight), LAMBDA k : weight[k] * (vals[k] % GaussWeightDen))),
               GaussWeightDen)

\* One application of the depthwise convolution, zero padding pad = ks // 2:
\* a pass along the width, then a pass along the height.
Tap(p, y, x) == IF y >= 1 /\ y <= Len(p) /\ x >= 1 /\ x <= Len(p[1]) THEN p[y][x] ELSE 0

conv_rows(kernel, t) ==
    Tensor(Chan(t), Height(t), Width(t),
           LAMBDA c, y, x :
               Bind(Mk(kernel.size, LAMBDA k : Tap(t[c], y, x + k - 1 - kernel.pad)),
                    LAMBDA vals : WeightedSum(kernel.weight, vals)))

conv_cols(kernel, t) ==
    Tensor(Chan(t), Height(t), Width(t),
           LAMBDA c, y, x :
               Bind(Mk(kernel.size, LAMBDA k : Tap(t[c], y + k - 1 - kernel.pad, x)),
                    LAMBDA vals : WeightedSum(kernel.weight, vals)))

gaussian_conv(kernel, t) == Bind(conv_rows(kernel, t), LAMBDA rows : conv_cols(kernel, rows))

\* `for i in range(iter): inputvector = gaussian_conv(inputvector)`
RECURSIVE SmoothLoop(_, _, _)
SmoothLoop(kernel, iter, inputvector) ==
    IF iter = 0 THEN inputvector
    ELSE Bind(gaussian_conv(kernel, inputvector), LAMBDA v : SmoothLoop(kernel, iter - 1, v))

gaussian_smooth(inputvector, iter, kernel_size, sig) ==
    Bind(get_gaussian_kernel(kernel_size, sig),
         LAMBDA gaussian_kernel : SmoothLoop(gaussian_kernel, iter, inputvector))

\* -------------------------------------------- VectorFieldExponentiator
\* integrate_by_add: `basegrid_wh += dxy` adds in place and returns the same
\* tensor, so the caller's grid holds the sum afterwards as well.
integrate_by_add(basegrid_wh, dxy) ==
    Bind(TAdd(basegrid_wh, dxy), LAMBDA sum : [result |-> sum, basegrid_wh |-> sum])

\* `for i in range(nb_steps): phi = applyComposition2D(phi, phi)`
RECURSIVE SquaringLoop(_, _)
SquaringLoop(nb_steps, phi) ==
    IF nb_steps = 0 THEN phi
    ELSE Bind(applyComposition2D(phi, phi), LAMBDA next : SquaringLoop(nb_steps - 1, next))

\* `for i in range(nb_steps): phi = applyComposition2D(interval_phi, phi)`
RECURSIVE EulerLoop(_, _, _)
EulerLoop(nb_steps, interval_phi, phi) ==
    IF nb_steps = 0 THEN phi
    ELSE Bind(applyComposition2D(interval_phi, phi),
              LAMBDA next : EulerLoop(nb_steps - 1, interval_phi, next))

\* Only 'euler' selects the euler loop; every other value is squared.
integrate_unknown_as_ss(grid_wh, phi, nb_steps, type) ==
    IF type = "euler" THEN EulerLoop(nb_steps, phi, phi)
    ELSE SquaringLoop(nb_steps, phi)

\* grid_wh is the grid after integrate_by_add, phi the tensor it returned.
integrate(grid_wh, phi, nb_steps, type) ==
    IF type = "ss" THEN SquaringLoop(nb_steps, phi)
    ELSE EulerLoop(nb_steps, phi, phi)

vectorFieldExponentiation2D(duv, nb_steps, type) ==
    Bind(integrate_by_add(get_base_grid(Height(duv), Width(duv)), TDiv(duv, Pow2(nb_steps))),
         LAMBDA added :
             Bind(integrate(added.basegrid_wh, added.result, nb_steps, type),
                  LAMBDA phi : TSub(phi, added.basegrid_wh)))

\* ------------------------------------------------------ DemonsComposer
\* The second F.interpolate, taken when the integrated field is not of the
\* base grid's size.
resize_if_needed(integrated, base_grid_wh) ==
    IF Height(integrated) # Height(base_grid_wh) \/ Width(integrated) # Width(base_grid_wh)
    THEN interpolate(integrated, Height(base_grid_wh), Width(base_grid_wh))
    ELSE integrated

\* `if smooth:` the offset from the base grid is smoothed once more.
smooth_composed(composed, base_grid_wh, smooth) ==
    IF smooth
    THEN Bind(TSub(composed, base_grid_wh),
              LAMBDA offset :
                  Bind(gaussian_smooth(offset, 1, gaussian_ks, sigma),
                       LAMBDA smoothed_offset : TAdd(smoothed_offset, base_grid_wh)))
    ELSE composed

DemonsCompose(base_grid_wh, integration_type_, duv, init_deformation_dxy, smooth) ==
    Bind(gaussian_smooth(duv, smooth_iter, gaussian_ks, sigma), LAMBDA smoothed :
    Bind(interpolate(smoothed, Height(base_grid_wh), Width(base_grid_wh)), LAMBDA resized :
    Bind(vectorFieldExponentiation2D(resized, num_steps, integration_type_), LAMBDA integrated :
    Bind(resize_if_needed(integrated, base_grid_wh), LAMBDA integrated_offsets :
    Bind(TAdd(integrated_offsets, base_grid_wh), LAMBDA target :
    Bind(applyComposition2D(init_deformation_dxy, target), LAMBDA composed :
    Bind(smooth_composed(composed, base_grid_wh, smooth), LAMBDA composed_deformation_grid :
         clamp(composed_deformation_grid))))))))

\* get_deformation_displacement_field: the deformation grid and its offset
\* from the base grid.
get_deformation_displacement_field(base_grid_wh, integration_type_, duv) ==
    Bind(DemonsCompose(base_grid_wh, integration_type_, duv, base_grid_wh, TRUE),
         LAMBDA dxy : [dxy |-> dxy, disp |-> TSub(dxy, base_grid_wh)])

\* transform: F.grid_sample(data, grid, mode=mode, align_corners=True); the
\* call passes no padding_mode, so grid_sample pads with zeros.
transform(data, deformation_dxy, mode) == grid_sample(data, deformation_dxy, mode, "zeros")

\* -------------------------------------------- external base contract
\* unit_normalize(d) = d / ||d||_2 of AdvTransformBase, per sample; the zero
\* field stays zero.  The norm is taken at 1 / NormUnit resolution.
NormUnit == Scale \div 96

RECURSIVE ISqrtFrom(_, _)
ISqrtFrom(n, r) ==
    LET next == (r + n \div r) \div 2
    IN IF next >= r THEN r ELSE ISqrtFrom(n, next)
\* floor(sqrt(n)), n >= 0
ISqrt(n) == IF n = 0 THEN 0 ELSE ISqrtFrom(n, n)

RECURSIVE Flatten(_)
Flatten(ss) == IF ss = <<>> THEN <<>> ELSE Head(ss) \o Flatten(Tail(ss))

\* ||d||_2 in units of 1 / NormUnit.
l2_norm(d) ==
    Bind(Flatten(Flatten(TDiv(d, Scale \div NormUnit))),
         LAMBDA coarse : ISqrt(SumSeq(Mk(Len(coarse), LAMBDA i : coarse[i] * coarse[i]))))

unit_normalize(d) ==
    Bind(l2_norm(d),
         LAMBDA norm :
             IF norm = 0 THEN d
             ELSE Tensor(Chan(d), Height(d), Width(d),
                         LAMBDA c, y, x :
                             RoundDiv(RoundDiv(d[c][y][x], Scale \div NormUnit) * Scale, norm)))

\* rescale_parameters(duv) of AdvTransformBase: the field rescaled to
\* magnitude epsilon.
rescale_parameters(eps, duv) == Bind(unit_normalize(duv), LAMBDA d : TMul(eps, d))

\* ================================================================ state
VARIABLES
    config_dict,        \* the constructor's config_dict
    power_iteration,    \* self.power_iteration
    interpolator_mode,  \* self.interpolator_mode
    integration_type,   \* self.integration_type
    xi,                 \* self.xi (0 until init_config sets it)
    is_training,        \* self.is_training
    param,              \* self.param: present = FALSE is None
    grad,               \* self.param.grad: present = FALSE is None
    base_grid_wh,       \* self.base_grid_wh (<<>> until init_parameters)
    diff,               \* self.diff (<<>> until the first forward)
    displacement,       \* self.displacement (<<>> until the first forward)
    graph,              \* an autograd graph links an output of forward/backward to self.param
    last,               \* the call that has just returned: operation, outcome, arguments,
                        \* return value (NoCall once the caller has taken them)
    assigned_by,        \* the operation that last assigned self.param
    n_opt,              \* successful optimize_parameters calls so far
    n_accum,            \* backpropagations accumulated into grad
    fn                  \* the last direct call of a function of the deformation engine

vars == <<config_dict, power_iteration, interpolator_mode, integration_type, xi,
          is_training, param, grad, base_grid_wh, diff, displacement, 
          graph, last, assigned_by, n_opt, n_accum, fn>>

instance_vars == <<config_dict, power_iteration, interpolator_mode, integration_type, xi,
                   is_training, param, grad, base_grid_wh, diff, displacement, 
                   graph, last, assigned_by, n_opt, n_accum>>

\* ---------------------------------------------------------------- inputs
Half == Scale \div 2
Quarter == Scale \div 4

\* Values of config_dict['xi'] tried (has_xi = FALSE: the key is absent).
Configs ==
    { [epsilon |-> Scale + Half, has_xi |-> FALSE, xi |-> 0, interpolator_mode |-> "bilinear"],
      [epsilon |-> Scale + Half, has_xi |-> TRUE, xi |-> Quarter, interpolator_mode |-> "nearest"] }

\* Outcomes of torch.rand(...) * 2 - 1 followed in init_velocity: fields with
\* values in [-1, 1].
RandSamples ==
    { Tensor(2, VecH, VecW, LAMBDA c, y, x :
          IF c = 1 THEN (IF (x + y) % 2 = 0 THEN Half ELSE 0 - Quarter) ELSE (y - x) * Quarter) }

\* Gradients a loss backpropagation may leave on the parameter.
GradSamples ==
    { Tensor(2, VecH, VecW, LAMBDA c, y, x : IF x = 1 THEN (c * Scale) \div 8 ELSE 0 - Half) }

\* Image batches: a grid pattern (0.5 on every 2nd row and column) and a ramp.
GridImage == Tensor(1, ImgH, ImgW, LAMBDA c, y, x : IF y % 2 = 1 \/ x % 2 = 1 THEN Half ELSE 0)
RampImage == Tensor(1, ImgH, ImgW, LAMBDA c, y, x : (x + 2 * y) * (Scale \div 16))
ImageSamples == { GridImage, RampImage }

\* The batch the training loop feeds the augmentor.
TrainBatches == { RampImage }

\* step_size arguments: None (given = FALSE) or a number.
StepSizes == { [given |-> FALSE, val |-> 0], [given |-> TRUE, val |-> Half] }

NoTensor == <<>>
NoParam == [present |-> FALSE, data |-> NoTensor, requires_grad |-> FALSE]
NoGrad == [present |-> FALSE, val |-> NoTensor]
NoStep == [given |-> FALSE, val |-> 0]
NoCall == [op |-> "none", ok |-> TRUE, data |-> NoTensor, duv |-> NoTensor,
           step |-> NoStep, ret |-> NoTensor]
NoFn == [op |-> "none"]

\* Velocity fields handed to the deformation engine directly: zero, two of
\* moderate size, and two of magnitude BigV (uniform and of mixed sign).
BigV == 1000 * Scale
VelocitySamples ==
    { Tensor(2, VecH, VecW, LAMBDA c, y, x : 0),
      Tensor(2, VecH, VecW, LAMBDA c, y, x :
          IF c = 1 THEN (IF (x + y) % 2 = 0 THEN Half ELSE 0 - Quarter) ELSE (y - x) * Quarter),
      Tensor(2, VecH, VecW, LAMBDA c, y, x : IF c = 2 /\ y = 1 /\ x = 1 THEN 3 * Half ELSE 0),
      Tensor(2, VecH, VecW, LAMBDA c, y, x : BigV),
      Tensor(2, VecH, VecW, LAMBDA c, y, x : IF (c + x + y) % 2 = 0 THEN BigV ELSE 0 - BigV) }

\* Values of integration_type ('rk4' stands for any other value) and of nb_steps.
IntegrationTypes == { "ss", "euler", "rk4" }
StepCounts == { 0, 1, 2, num_steps }
InterpolatorModes == { "bilinear", "nearest" }

Call(op, ok, data, duv, step, ret) ==
    [op |-> op, ok |-> ok, data |-> data, duv |-> duv, step |-> step, ret |-> ret]

\* A tensor of the velocity shape [N, 2, Hv, Wv] (torch.empty(0) is not).
IsVelocity(t) == Len(t) = 2 /\ Len(t[1]) = VecH /\ Len(t[1][1]) = VecW

\* ------------------------------------------------------------- __init__
\* AdvMorph.__init__: the base class stores config_dict, param = None,
\* is_training = False; AdvMorph sets the rest.
Init ==
    /\ config_dict \in Configs
    /\ power_iteration \in BOOLEAN
    /\ interpolator_mode = "bilinear"
    /\ integration_type = "ss"
    /\ xi = 0
    /\ is_training = FALSE
    /\ param = NoParam
    /\ grad = NoGrad
    /\ base_grid_wh = NoTensor
    /\ diff = NoTensor
    /\ displacement = NoTensor
    /\ graph = FALSE
    /\ last = NoCall
    /\ assigned_by = "none"
    /\ n_opt = 0
    /\ n_accum = 0
    /\ fn = NoFn

\* ------------------------------------------------- init_config / velocity
\* init_config: self.xi is set to 0.5 whatever config_dict holds.
init_config_xi(config) == Half

\* A direct call of the public method init_config(config_dict) with any
\* configuration: of the modelled state it writes xi and interpolator_mode
\* (epsilon, data_size and vector_size are read again from self.config_dict by
\* the next init_parameters); the parameter and the base grid stay.
init_config(config) ==
    /\ last = NoCall
    /\ xi' = init_config_xi(config)
    /\ interpolator_mode' = config.interpolator_mode
    /\ last' = Call("init_config", TRUE, NoTensor, NoTensor, NoStep, NoTensor)
    /\ UNCHANGED <<config_dict, power_iteration, integration_type, is_training, param, grad,
                   base_grid_wh, diff, displacement, graph, assigned_by, n_opt, n_accum, fn>>

\* init_velocity(use_zero): a random field rescaled, or zeros.
init_velocity(eps, rand, use_zero) ==
    IF ~use_zero THEN rescale_parameters(eps, rand)
    ELSE Tensor(2, VecH, VecW, LAMBDA c, y, x : 0)

\* The attributes init_parameters writes, for the random draw rand.
init_parameters_state(config, rand) ==
    [xi |-> init_config_xi(config),
     interpolator_mode |-> config.interpolator_mode,
     base_grid_wh |-> get_base_grid(ImgH, ImgW),
     param |-> [present |-> TRUE,
                data |-> init_velocity(config.epsilon, rand, FALSE),
                requires_grad |-> FALSE]]

init_parameters ==
    \E rand \in RandSamples :
        \E st \in { init_parameters_state(config_dict, rand) } :
           /\ last = NoCall
           /\ xi' = st.xi
           /\ interpolator_mode' = st.interpolator_mode
           /\ base_grid_wh' = st.base_grid_wh
           /\ param' = st.param
           /\ grad' = NoGrad
           /\ graph' = FALSE
           /\ n_accum' = 0
           /\ assigned_by' = "init_parameters"
           /\ last' = Call("init_parameters", TRUE, NoTensor, NoTensor, NoStep, st.param.data)
           /\ UNCHANGED <<config_dict, power_iteration, integration_type, is_training,
                          diff, displacement, n_opt, fn>>

\* ------------------------------------------------------ forward / backward
\* The lazy initialisation runs on every call.
NeedsInit_always(p) == TRUE

\* `if self.param is None: self.init_parameters()`
NeedsInit(p) == ~p.present

\* The velocity forward and backward integrate: xi * param in training +
\* power-iteration mode, else param.
scaled_velocity(power_it, training, xi_, data) ==
    IF power_it /\ training THEN TMul(xi_, data) ELSE data

\* What forward computes from the instance state cur (xi, interpolator_mode,
\* base_grid_wh, param): the state after the lazy initialisation, whether the
\* deformation pipeline ran (it raises on a parameter that is no velocity
\* field), the velocity used, the displacement and the warped images.
forward_outcome(config, power_it, training, itype, cur, data, rand) ==
    Bind(IF NeedsInit(cur.param) THEN init_parameters_state(config, rand) ELSE cur, LAMBDA st :
        IF ~IsVelocity(st.param.data)
        THEN [lazy |-> NeedsInit(cur.param), st |-> st, ok |-> FALSE, duv |-> NoTensor,
              dxy |-> NoTensor, disp |-> NoTensor, ret |-> NoTensor, diff |-> NoTensor]
        ELSE
    Bind(scaled_velocity(power_it, training, st.xi, st.param.data), LAMBDA duv :
    Bind(get_deformation_displacement_field(st.base_grid_wh, itype, duv), LAMBDA field :
    Bind(transform(data, field.dxy, st.interpolator_mode), LAMBDA transformed_image :
        [lazy |-> NeedsInit(cur.param), st |-> st, ok |-> TRUE, duv |-> duv,
         dxy |-> field.dxy, disp |-> field.disp, ret |-> transformed_image,
         diff |-> TSub(transformed_image, data)]))))

\* rand is drawn only when the lazy initialisation runs.
forward(data) ==
    /\ last = NoCall
    /\ \E rand \in (IF NeedsInit(param) THEN RandSamples ELSE {NoTensor}) :
       \E out \in { forward_outcome(config_dict, power_iteration, is_training, integration_type,
                                 [xi |-> xi, interpolator_mode |-> interpolator_mode,
                                  base_grid_wh |-> base_grid_wh, param |-> param],
                                 data, rand) } :
       /\ xi' = out.st.xi
       /\ interpolator_mode' = out.st.interpolator_mode
       /\ base_grid_wh' = out.st.base_grid_wh
       /\ param' = out.st.param
       /\ grad' = IF out.lazy THEN NoGrad ELSE grad
       /\ n_accum' = IF out.lazy THEN 0 ELSE n_accum
       /\ assigned_by' = IF out.lazy THEN "init_parameters" ELSE assigned_by
       /\ diff' = IF out.ok THEN out.diff ELSE diff
       /\ displacement' = IF out.ok THEN out.disp ELSE displacement
       /\ graph' = IF out.lazy THEN FALSE ELSE (graph \/ (out.ok /\ param.requires_grad))
       /\ last' = Call("forward", out.ok, data, out.duv, NoStep, out.ret)
       /\ UNCHANGED <<config_dict, power_iteration, integration_type, is_training,
                      n_opt, fn>>

\* What backward computes: no lazy initialisation; -param on a None
\* parameter raises, as does the pipeline on a parameter that is no velocity field.
backward_outcome(power_it, training, itype, cur, data) ==
    IF ~(cur.param.present /\ IsVelocity(cur.param.data))
    THEN [ok |-> FALSE, duv |-> NoTensor, dxy |-> NoTensor, ret |-> NoTensor]
    ELSE
    Bind(scaled_velocity(power_it, training, cur.xi, cur.param.data), LAMBDA scaled :
    Bind(TNeg(scaled), LAMBDA duv :
    Bind(get_deformation_displacement_field(cur.base_grid_wh, itype, duv), LAMBDA field :
        [ok |-> TRUE, duv |-> duv, dxy |-> field.dxy,
         ret |-> transform(data, field.dxy, cur.interpolator_mode)])))

backward(data) ==
    /\ last = NoCall
    /\ \E out \in { backward_outcome(power_iteration, is_training, integration_type,
                                  [xi |-> xi, interpolator_mode |-> interpolator_mode,
                                   base_grid_wh |-> base_grid_wh, param |-> param],
                                  data) } :
       /\ graph' = (graph \/ (out.ok /\ param.requires_grad))
       /\ last' = Call("backward", out.ok, data, out.duv, NoStep, out.ret)
       /\ UNCHANGED <<config_dict, power_iteration, interpolator_mode, integration_type, xi,
                      is_training, param, grad, base_grid_wh, diff, displacement,
                      assigned_by, n_opt, n_accum, fn>>

\* ----------------------------------------------------------------- train
\* torch.nn.Parameter(data, requires_grad=True): a new leaf tensor; for
\* data = None it holds torch.empty(0).
Parameter(p) == [present |-> TRUE, data |-> p.data, requires_grad |-> TRUE]

train ==
    /\ last = NoCall
    /\ is_training' = TRUE
    /\ IF power_iteration /\ ~param.present
       THEN \* unit_normalize(None) raises
            /\ last' = Call("train", FALSE, NoTensor, NoTensor, NoStep, NoTensor)
            /\ UNCHANGED <<param, grad, graph, n_accum, assigned_by>>
       ELSE /\ param' = Parameter(IF power_iteration
                                  THEN [param EXCEPT !.data = unit_normalize(param.data)]
                                  ELSE param)
            /\ grad' = NoGrad
            /\ graph' = FALSE
            /\ n_accum' = 0
            /\ assigned_by' = "train"
            /\ last' = Call("train", TRUE, NoTensor, NoTensor, NoStep, NoTensor)
    /\ UNCHANGED <<config_dict, power_iteration, interpolator_mode, integration_type, xi,
                   base_grid_wh, diff, displacement, n_opt, fn>>

\* -------------------------------------------------- the training loop
\* loss.backward() of the caller: accumulates a gradient on the parameter the
\* recorded graph leads to, and frees the graph.
loss_backward(g) ==
    /\ last = NoCall
    /\ graph
    /\ n_accum < MaxAccum
    /\ grad' = [present |-> TRUE, val |-> IF grad.present THEN TAdd(grad.val, g) ELSE g]
    /\ n_accum' = n_accum + 1
    /\ graph' = FALSE
    /\ last' = Call("loss_backward", TRUE, NoTensor, NoTensor, NoStep, NoTensor)
    /\ UNCHANGED <<config_dict, power_iteration, interpolator_mode, integration_type, xi,
                   is_training, param, base_grid_wh, diff, displacement, 
                   assigned_by, n_opt, fn>>

\* --------------------------------------------------- optimize_parameters
\* A missing gradient is tolerated: the call succeeds and keeps the parameter.
optimize_update_tolerates_no_grad(power_it, p, g, step) ==
    IF ~p.present \/ (g.present /\ ~power_it /\ ~step.given)
    THEN [ok |-> FALSE, param |-> p]
    ELSE IF ~g.present
    THEN [ok |-> TRUE, param |-> [p EXCEPT !.requires_grad = FALSE]]
    ELSE Bind(unit_normalize(g.val), LAMBDA duv :
         Bind(IF power_it THEN duv ELSE Bind(TMul(step.val, duv), LAMBDA d : TAdd(p.data, d)),
              LAMBDA new :
                  [ok |-> TRUE,
                   param |-> [present |-> TRUE, data |-> new, requires_grad |-> FALSE]]))

\* The result is not detached: it stays in the graph of the old parameter.
optimize_update_keeps_tracking(power_it, p, g, step) ==
    IF ~p.present \/ ~g.present \/ (~power_it /\ ~step.given)
    THEN [ok |-> FALSE, param |-> p]
    ELSE Bind(unit_normalize(g.val), LAMBDA duv :
         Bind(IF power_it THEN duv ELSE Bind(TMul(step.val, duv), LAMBDA d : TAdd(p.data, d)),
              LAMBDA new :
                  [ok |-> TRUE,
                   param |-> [present |-> TRUE, data |-> new,
                              requires_grad |-> p.requires_grad]]))

\* Power-iteration mode takes the gradient step of normal mode whenever a
\* step size is given.
optimize_update_steps_in_pi(power_it, p, g, step) ==
    IF ~p.present \/ ~g.present \/ (~power_it /\ ~step.given)
    THEN [ok |-> FALSE, param |-> p]
    ELSE Bind(unit_normalize(g.val), LAMBDA duv :
         Bind(IF ~step.given THEN duv ELSE Bind(TMul(step.val, duv), LAMBDA d : TAdd(p.data, d)),
              LAMBDA new :
                  [ok |-> TRUE,
                   param |-> [present |-> TRUE, data |-> new, requires_grad |-> FALSE]]))

\* The value optimize_parameters computes for self.param, or its failure:
\* self.param.grad of None, unit_normalize of a None gradient and
\* None * tensor all raise.
optimize_update(power_it, p, g, step) ==
    IF ~p.present \/ ~g.present \/ (~power_it /\ ~step.given)
    THEN [ok |-> FALSE, param |-> p]
    ELSE Bind(unit_normalize(g.val), LAMBDA duv :
         Bind(IF power_it THEN duv ELSE Bind(TMul(step.val, duv), LAMBDA d : TAdd(p.data, d)),
              LAMBDA new :
                  [ok |-> TRUE,
                   param |-> [present |-> TRUE, data |-> new, requires_grad |-> FALSE]]))

optimize_parameters(step) ==
    /\ last = NoCall
    /\ \E upd \in { optimize_update(power_iteration, param, grad, step) } :
       /\ IF upd.ok
          THEN /\ n_opt < MaxOpt
               /\ param' = upd.param
               /\ grad' = NoGrad
               /\ graph' = FALSE
               /\ n_accum' = 0
               /\ n_opt' = n_opt + 1
               /\ assigned_by' = "optimize_parameters"
               /\ last' = Call("optimize_parameters", TRUE, NoTensor, NoTensor, step, upd.param.data)
          ELSE /\ last' = Call("optimize_parameters", FALSE, NoTensor, NoTensor, step, NoTensor)
               /\ UNCHANGED <<param, grad, graph, n_accum, n_opt, assigned_by>>
       /\ UNCHANGED <<config_dict, power_iteration, interpolator_mode, integration_type, xi,
                      is_training, base_grid_wh, diff, displacement, fn>>

\* ------------------------------------------- direct calls of the engine
\* One call at a time: a call is made when none is pending (fn = NoFn) and
\* leaves its arguments and result in fn; Return clears it.
BaseGrid == get_base_grid(ImgH, ImgW)

\* Deformation grids to compose: the identity and a warped one.
GridSamples ==
    { BaseGrid,
      Tensor(2, ImgH, ImgW, LAMBDA c, y, x :
          ClampUnit(BaseGrid[c][y][x] + (IF (x + y + c) % 2 = 0 THEN Quarter ELSE 0 - Half))) }

CallDemonsCompose(duv, type, smooth) ==
    /\ fn = NoFn
    /\ fn' = [op |-> "DemonsCompose", duv |-> duv, type |-> type, smooth |-> smooth,
              out |-> DemonsCompose(BaseGrid, type, duv, BaseGrid, smooth)]
    /\ UNCHANGED instance_vars

CallExponentiation(duv, nb_steps, type) ==
    /\ fn = NoFn
    /\ fn' = [op |-> "vectorFieldExponentiation2D", duv |-> duv, nb_steps |-> nb_steps,
              type |-> type, out |-> vectorFieldExponentiation2D(duv, nb_steps, type)]
    /\ UNCHANGED instance_vars

CallComposition(flow1, flow2) ==
    /\ fn = NoFn
    /\ fn' = [op |-> "applyComposition2D", flow1 |-> flow1, flow2 |-> flow2,
              out |-> applyComposition2D(flow1, flow2)]
    /\ UNCHANGED instance_vars

\* forward(data) followed by backward of its result, on an instance whose
\* parameter is the velocity field velocity.
CallForwardBackward(velocity, data, mode, training) ==
    /\ fn = NoFn
    /\ \E cur \in { [xi |-> init_config_xi(config_dict), interpolator_mode |-> mode,
                      base_grid_wh |-> BaseGrid,
                      param |-> [present |-> TRUE, data |-> velocity,
                                 requires_grad |-> training]] } :
       \E fwd \in { forward_outcome(config_dict, power_iteration, training, integration_type,
                                    cur, data, NoTensor) } :
       \E bwd \in { backward_outcome(power_iteration, training, integration_type,
                                     cur, fwd.ret) } :
           fn' = [op |-> "forward_backward", param |-> velocity, data |-> data,
                  mode |-> mode, training |-> training,
                  dxy |-> fwd.dxy, disp |-> fwd.disp, forward |-> fwd.ret,
                  inverse_dxy |-> bwd.dxy, backward |-> bwd.ret]
    /\ UNCHANGED instance_vars

Return ==
    /\ fn # NoFn
    /\ fn' = NoFn
    /\ UNCHANGED instance_vars

\* ------------------------------------------------------ return of a call
\* The caller takes the outcome of the call of a method; the next call is
\* made after that.
return_to_caller ==
    /\ last # NoCall
    /\ last' = NoCall
    /\ UNCHANGED <<config_dict, power_iteration, interpolator_mode, integration_type, xi,
                   is_training, param, grad, base_grid_wh, diff, displacement, graph,
                   assigned_by, n_opt, n_accum, fn>>

NextFn ==
    \/ \E duv \in VelocitySamples, type \in IntegrationTypes, smooth \in BOOLEAN :
           CallDemonsCompose(duv, type, smooth)
    \/ \E duv \in VelocitySamples, nb_steps \in StepCounts, type \in IntegrationTypes :
           CallExponentiation(duv, nb_steps, type)
    \/ \E flow1 \in GridSamples, flow2 \in GridSamples : CallComposition(flow1, flow2)
    \/ \E velocity \in VelocitySamples, data \in ImageSamples, mode \in InterpolatorModes,
          training \in BOOLEAN :
           CallForwardBackward(velocity, data, mode, training)
    \/ Return

SpecFn == Init /\ [][NextFn]_vars

\* ------------------------------------------ properties of the engine
IsZero(t) == \A c \in 1..Len(t) : \A y \in 1..Len(t[c]) : \A x \in 1..Len(t[c][y]) : t[c][y][x] = 0

InUnitBox(t) ==
    \A c \in 1..Len(t) : \A y \in 1..Len(t[c]) : \A x \in 1..Len(t[c][y]) :
        0 - Scale <= t[c][y][x] /\ t[c][y][x] <= Scale

Touches(t, v) ==
    \E c \in 1..Len(t) : \E y \in 1..Len(t[c]) : \E x \in 1..Len(t[c][y]) : t[c][y][x] = v

IsGrid(t) == Len(t) = 2 /\ Len(t[1]) = ImgH /\ Len(t[1][1]) = ImgW

\* C1: every deformation grid DemonsCompose returns, and so every grid forward
\* and backward apply to the images, has all its coordinates in [-1, 1],
\* whatever the magnitude of the velocity field, for both values of smooth and
\* in every integration mode.
C1_GridWithinUnitBox ==
    /\ fn.op = "DemonsCompose" => IsGrid(fn.out) /\ InUnitBox(fn.out)
    /\ fn.op = "forward_backward" => InUnitBox(fn.dxy) /\ InUnitBox(fn.inverse_dxy)

\* C1 witness: DemonsCompose has returned, for a velocity of magnitude BigV,
\* with smoothing on and euler integration, a grid that reaches the bound 1.
C1_Witness ==
    /\ fn.op = "DemonsCompose"
    /\ fn.smooth
    /\ fn.type = "euler"
    /\ Touches(fn.duv, BigV)
    /\ Touches(fn.out, Scale)

\* C2: with an all-zero velocity parameter the deformation grid is the base
\* grid and the displacement is zero, forward(x) = x and
\* backward(forward(x)) = x; applyComposition2D(grid, base grid) = grid.
C2_ZeroVelocityIsIdentity ==
    /\ (fn.op = "forward_backward" /\ IsZero(fn.param)) =>
           /\ fn.dxy = BaseGrid
           /\ IsZero(fn.disp)
           /\ fn.forward = fn.data
           /\ fn.backward = fn.data
    /\ (fn.op = "applyComposition2D" /\ fn.flow2 = BaseGrid) => fn.out = fn.flow1

\* C2 witness: forward and backward have run in training mode on the zero
\* velocity and the grid-pattern image, and the image came back.
C2_Witness ==
    /\ fn.op = "forward_backward"
    /\ IsZero(fn.param)
    /\ fn.training
    /\ fn.data = GridImage
    /\ ~IsZero(fn.data)
    /\ fn.backward = fn.data

\* C6 as written: an integration_type that is neither 'ss' nor 'euler' makes the
\* deformation computation fail, and no deformation grid is produced.
C6_UnsupportedTypeFails ==
    (fn.op \in {"DemonsCompose", "vectorFieldExponentiation2D"} /\ fn.type \notin {"ss", "euler"})
        => fn.out = NoTensor

\* C6 as the code has it: an integration_type other than 'ss' is integrated by
\* the euler loop; the computation returns, without an error, the field
\* (for DemonsCompose: the deformation grid) that 'euler' gives.
C6_OtherTypeIsEuler ==
    /\ (fn.op = "DemonsCompose" /\ fn.type # "ss") =>
           /\ IsGrid(fn.out)
           /\ fn.out = DemonsCompose(BaseGrid, "euler", fn.duv, BaseGrid, fn.smooth)
    /\ (fn.op = "vectorFieldExponentiation2D" /\ fn.type # "ss") =>
           fn.out = vectorFieldExponentiation2D(fn.duv, fn.nb_steps, "euler")

\* C6 witness: DemonsCompose has returned a grid for integration_type 'rk4',
\* and that grid is not the one 'ss' gives.
C6_Witness ==
    /\ fn.op = "DemonsCompose"
    /\ fn.type = "rk4"
    /\ IsGrid(fn.out)
    /\ fn.out # DemonsCompose(BaseGrid, "ss", fn.duv, BaseGrid, fn.smooth)

\* C8: vectorFieldExponentiation2D returns the final phi minus the grid built
\* by get_base_grid, unchanged by the seeding of phi; for nb_steps = 0 the
\* returned displacement is the input velocity, in both integration modes.
C8_SubtractsUnmodifiedBaseGrid ==
    fn.op = "vectorFieldExponentiation2D" =>
        /\ fn.out = TSub(integrate(NoTensor,
                                   TAdd(get_base_grid(Height(fn.duv), Width(fn.duv)),
                                        TDiv(fn.duv, Pow2(fn.nb_steps))),
                                   fn.nb_steps, fn.type),
                         get_base_grid(Height(fn.duv), Width(fn.duv)))
        /\ fn.nb_steps = 0 => fn.out = fn.duv

\* ------------------------------------------------------------------ Spec
\* Lifecycle of one AdvMorph instance under its caller's calls.
Next ==
    \/ \E config \in Configs : init_config(config)
    \/ init_parameters
    \/ \E data \in TrainBatches : forward(data)
    \/ \E data \in TrainBatches : backward(data)
    \/ train
    \/ \E g \in GradSamples : loss_backward(g)
    \/ \E step \in StepSizes : optimize_parameters(step)
    \/ return_to_caller

Spec == Init /\ [][Next]_vars

\* --------------------------------------------- properties of the lifecycle
\* A step of the lifecycle is a call of optimize_parameters exactly when it
\* leaves last.op = "optimize_parameters" (calls are made with last = NoCall).
\*
\* C3: optimize_parameters called in a state where the parameter carries no
\* gradient (uninitialised, initialised but never trained, trained without a
\* loss backpropagation, or just after a previous optimize_parameters) fails
\* and leaves the parameter unchanged.
C3_NoGradientFails ==
    [][(last'.op = "optimize_parameters" /\ ~grad.present)
          => (~last'.ok /\ param' = param /\ n_opt' = n_opt)]_vars

\* C3 witness: optimize_parameters has failed on a trained, graph-tracked
\* parameter on which no gradient was populated.
C3_Witness ==
    /\ last.op = "optimize_parameters"
    /\ ~last.ok
    /\ assigned_by = "train"
    /\ param.requires_grad
    /\ IsVelocity(param.data)
    /\ ~grad.present

\* C4: the parameter is graph-tracked only when train() was the last operation
\* to assign it; a successful optimize_parameters leaves it detached and
\* without gradient, and it succeeds only on a parameter train() assigned, so
\* that a new train() is needed before the next one can succeed.
C4_TrackedOnlyAfterTrain ==
    [][/\ param'.requires_grad => assigned_by' = "train"
       /\ assigned_by' = "optimize_parameters" => ~param'.requires_grad /\ ~grad'.present
       /\ n_opt' # n_opt => (/\ assigned_by = "train"
                             /\ param.requires_grad
                             /\ assigned_by' = "optimize_parameters"
                             /\ ~param'.requires_grad)]_vars

\* C4 witness: a second optimize_parameters has succeeded, after a new train(),
\* and the stored parameter is detached again.
C4_Witness ==
    /\ n_opt >= 2
    /\ assigned_by = "optimize_parameters"
    /\ last.op = "optimize_parameters"
    /\ last.ok
    /\ is_training
    /\ ~param.requires_grad

\* C5: forward called with the parameter present leaves the parameter, its
\* gradient, the base grid, the training flag and the configuration as they
\* are; of the instance state it writes diff and displacement only.
C5_ForwardWritesDiagnosticsOnly ==
    [][(last'.op = "forward" /\ param.present)
          => UNCHANGED <<param, grad, base_grid_wh, is_training, config_dict,
                         power_iteration, interpolator_mode, integration_type, xi>>]_vars

\* C5 witness: forward has run on an optimized parameter in training mode and
\* has written diff and displacement.
C5_Witness ==
    /\ last.op = "forward"
    /\ last.ok
    /\ is_training
    /\ assigned_by = "optimize_parameters"
    /\ diff # NoTensor
    /\ displacement # NoTensor

\* C7: in training + power-iteration mode forward integrates xi * param and
\* backward -xi * param, xi being the value the configuration supplies (0.5
\* when it supplies none); otherwise they integrate param and -param.
C7_ConfiguredXiScales ==
    LET configured == IF config_dict.has_xi THEN config_dict.xi ELSE Half
    IN /\ (last.op = "forward" /\ last.ok) =>
              last.duv = IF power_iteration /\ is_training
                         THEN TMul(configured, param.data) ELSE param.data
       /\ (last.op = "backward" /\ last.ok) =>
              last.duv = IF power_iteration /\ is_training
                         THEN TNeg(TMul(configured, param.data)) ELSE TNeg(param.data)

\* C9: a successful optimize_parameters(step_size) with gradient g on the old
\* parameter p stores unit_normalize(g) in power-iteration mode, whatever
\* step_size and p are, and p + step_size * unit_normalize(g) in normal mode;
\* it returns the stored parameter.
C9_UpdateRule ==
    [][n_opt' # n_opt
          => /\ last'.op = "optimize_parameters" /\ last'.ok
             /\ param'.data = IF power_iteration
                               THEN unit_normalize(grad.val)
                               ELSE TAdd(param.data,
                                         TMul(last'.step.val, unit_normalize(grad.val)))
             /\ last'.ret = param'.data]_vars

\* C9 witness: optimize_parameters has succeeded in power-iteration mode with
\* a step size given, and the stored parameter is a velocity field.
C9_Witness ==
    /\ n_opt >= 1
    /\ last.op = "optimize_parameters"
    /\ last.ok
    /\ power_iteration
    /\ last.step.given
    /\ IsVelocity(param.data)
    /\ last.ret = param.data

\* C10: in every reachable state, a parameter that is present (not None) comes
\* with a base grid computed by init_parameters and is a velocity field of
\* shape [N, 2, Hv, Wv].
C10_ParamPresentImpliesInitialised ==
    param.present => (base_grid_wh # NoTensor /\ IsVelocity(param.data))

====
